---------------------------- MODULE Spec2Model ----------------------------
(***************************************************************************)
(* Matching engine of src/Main_File.py: submit_order and cancel_order run  *)
(* as asyncio coroutines on one event loop.  A coroutine runs atomically   *)
(* from one await to the next; at an await any other coroutine may run.    *)
(* One symbol is modelled (every book is independent of the others).       *)
(*                                                                         *)
(* Python objects that are shared by reference are kept in heaps:          *)
(*   dq[d]  the deque created by order d at line 224 (a price level),      *)
(*   oq[o]  the "quantity" field of the resting dict of order o (line 225),*)
(* and bids/asks (the two SortedDict) map a price key to a deque.          *)
(* Prices and quantities are integers (ticks and lots).                    *)
(***************************************************************************)
EXTENDS Integers, Sequences, FiniteSets, TLC

MaxOrders == 3      \* submissions that are given an order id
MaxCancels == 1     \* cancel_order calls
MaxInFlight == 2    \* coroutines in flight at the same time
MaxPrice == 2       \* prices are 1..MaxPrice
MaxQty == 2         \* quantities are 1..MaxQty

NoPrice == 0        \* Python None for a price / unset match_price
NoOrder == 0        \* no order / no deque referenced

Ids == 1..MaxOrders
Slots == 1..MaxInFlight
Prices == 1..MaxPrice
Qtys == 1..MaxQty
Sides == {"buy", "sell"}
Types == {"limit", "market", "ioc", "fok"}

VARIABLES
  bids,     \* book['bids']: price key -> deque reference
  asks,     \* book['asks']: price key -> deque reference
  dq,       \* heap of deques: sequence of order ids, head first
  oq,       \* heap of resting dicts: o['quantity']
  db,       \* orders_collection: order id -> document
  trades,   \* every trade in match order (the trades_executed appends)
  task,     \* the coroutines in flight: position and local variables
  nextId,   \* number of order ids handed out
  ncancel,  \* number of cancel_order calls made
  call,     \* per order id: the quantity asked for and how its submit_order call ended
  snap,     \* the book as it was before the latest rest of an unmatched limit order
  resps,    \* the HTTP responses of cancel_order and of refused submissions, in order
  bcast,    \* the trades sent to the subscribers (positions in trades), in order
  nbad,     \* number of malformed requests made
  nfail     \* number of store operations that failed

vars == <<bids, asks, dq, oq, db, trades, task, nextId, ncancel, call, snap,
          resps, bcast, nbad, nfail>>

Idle == [pc |-> "idle", id |-> NoOrder, side |-> "buy", typ |-> "limit",
         price |-> NoPrice, qty |-> 0, remaining |-> 0, mp |-> NoPrice,
         maker |-> NoOrder, queue |-> NoOrder, fin |-> "none", finq |-> 0]

NoCall == [st |-> "none", final |-> "none", qty |-> 0]
NoSnap == [id |-> NoOrder]

----------------------------------------------------------------------------
(* helpers *)

Max(S) == CHOOSE x \in S : \A y \in S : y <= x
Min(S) == CHOOSE x \in S : \A y \in S : x <= y
Min2(a, b) == IF a <= b THEN a ELSE b

SetKey(f, k, v) == [p \in (DOMAIN f) \cup {k} |-> IF p = k THEN v ELSE f[p]]
DelKey(f, k) == [p \in (DOMAIN f) \ {k} |-> f[p]]

RECURSIVE SumQ(_, _)
SumQ(q, s) == IF s = <<>> THEN 0 ELSE q[Head(s)] + SumQ(q, Tail(s))

RECURSIVE SumLevels(_, _, _, _)
SumLevels(sd, d, q, ks) ==
  IF ks = {} THEN 0
  ELSE LET k == Min(ks) IN SumQ(q, d[sd[k]]) + SumLevels(sd, d, q, ks \ {k})

RECURSIVE RemoveFirst(_, _)
RemoveFirst(s, x) ==
  IF s = <<>> THEN <<>>
  ELSE IF Head(s) = x THEN Tail(s) ELSE <<Head(s)>> \o RemoveFirst(Tail(s), x)

InSeq(s, x) == \E i \in 1..Len(s) : s[i] = x

\* What a traversal of the book sees: the price levels of each side and, per
\* level, the resting dicts (order id, quantity) in FIFO order.
LevelView(sd, d, q) ==
  [p \in DOMAIN sd |-> [k \in 1..Len(d[sd[p]]) |-> <<d[sd[p]][k], q[d[sd[p]][k]]>>]]
View == [bids |-> LevelView(bids, dq, oq), asks |-> LevelView(asks, dq, oq)]

Heap == [bids |-> bids, asks |-> asks, dq |-> dq, oq |-> oq, trades |-> trades]

Raise(b, l, kind) == [b |-> b, l |-> [l EXCEPT !.pc = "exc", !.fin = kind]]

----------------------------------------------------------------------------
(* submit_order, the synchronous blocks between its awaits *)

\* get_best_price
BestBid(b) == Max(DOMAIN b.bids)
BestAsk(b) == Min(DOMAIN b.asks)

\* lines 144-154: quantity available to a fill-or-kill order
Available(b, l) ==
  IF l.side = "buy"
  THEN SumLevels(b.asks, b.dq, b.oq,
                 {p \in DOMAIN b.asks : l.price = NoPrice \/ p <= l.price})
  ELSE SumLevels(b.bids, b.dq, b.oq,
                 {p \in DOMAIN b.bids : l.price = NoPrice \/ p >= l.price})

\* the remainder put at the head of its price level
Rest_Front(b, l, rp) ==
  LET sb   == IF l.side = "buy" THEN b.bids ELSE b.asks
      new  == rp \notin DOMAIN sb
      sb1  == IF new THEN SetKey(sb, rp, l.id) ELSE sb
      d    == sb1[rp]
      dq1  == IF new THEN [b.dq EXCEPT ![l.id] = <<>>] ELSE b.dq
  IN [b EXCEPT !.bids = IF l.side = "buy" THEN sb1 ELSE @,
               !.asks = IF l.side = "buy" THEN @ ELSE sb1,
               !.dq = [dq1 EXCEPT ![d] = <<l.id>> \o @],
               !.oq = [@ EXCEPT ![l.id] = l.remaining]]

\* lines 222-225: rest the remainder at the tail of its price level
Rest(b, l, rp) ==
  LET sb   == IF l.side = "buy" THEN b.bids ELSE b.asks
      new  == rp \notin DOMAIN sb
      sb1  == IF new THEN SetKey(sb, rp, l.id) ELSE sb
      d    == sb1[rp]
      dq1  == IF new THEN [b.dq EXCEPT ![l.id] = <<>>] ELSE b.dq
  IN [b EXCEPT !.bids = IF l.side = "buy" THEN sb1 ELSE @,
               !.asks = IF l.side = "buy" THEN @ ELSE sb1,
               !.dq = [dq1 EXCEPT ![d] = Append(@, l.id)],
               !.oq = [@ EXCEPT ![l.id] = l.remaining]]

\* the remainder of any order type rested (at its price, else at the last match price)
Residual_RestAll(b, l) ==
  IF l.remaining > 0
  THEN LET rp == IF l.price # NoPrice THEN l.price ELSE l.mp IN
       IF rp = NoPrice
       THEN [b |-> b, l |-> [l EXCEPT !.pc = "s_final", !.fin = "cancelled", !.finq = 0]]
       ELSE [b |-> Rest(b, l, rp),
             l |-> [l EXCEPT !.pc = "s_final", !.fin = "open", !.finq = l.remaining]]
  ELSE [b |-> b, l |-> [l EXCEPT !.pc = "s_final", !.fin = "filled", !.finq = 0]]

\* lines 214-234 up to the await of the last update_one
Residual(b, l) ==
  IF l.remaining > 0
  THEN IF l.typ = "limit"
       THEN LET rp == IF l.price # NoPrice THEN l.price ELSE l.mp IN
            IF rp = NoPrice
            THEN [b |-> b, l |-> [l EXCEPT !.pc = "s_final", !.fin = "cancelled", !.finq = 0]]
            ELSE [b |-> Rest(b, l, rp),
                  l |-> [l EXCEPT !.pc = "s_final", !.fin = "open", !.finq = l.remaining]]
       ELSE [b |-> b, l |-> [l EXCEPT !.pc = "s_final", !.fin = "cancelled", !.finq = 0]]
  ELSE [b |-> b, l |-> [l EXCEPT !.pc = "s_final", !.fin = "filled", !.finq = 0]]

\* the break condition with the comparison no longer strict
NotMarketable_Loose(b, l) ==
  IF l.side = "buy"
  THEN DOMAIN b.asks = {} \/ (l.price # NoPrice /\ Min(DOMAIN b.asks) >= l.price)
  ELSE DOMAIN b.bids = {} \/ (l.price # NoPrice /\ Max(DOMAIN b.bids) <= l.price)

\* lines 163 / 168: the loop's break condition
NotMarketable(b, l) ==
  IF l.side = "buy"
  THEN DOMAIN b.asks = {} \/ (l.price # NoPrice /\ BestAsk(b) > l.price)
  ELSE DOMAIN b.bids = {} \/ (l.price # NoPrice /\ BestBid(b) < l.price)

\* lines 165-166 / 170-171: the level matched against
MatchPrice(b, l) == IF l.side = "buy" THEN BestAsk(b) ELSE BestBid(b)

\* the trade priced at the taker's limit
TradePrice_Limit(mp, l) == IF l.price # NoPrice THEN l.price ELSE mp

\* line 183: the price a trade executes at
TradePrice(mp, l) == mp

\* the maker taken from the tail of the level
PickMaker_Last(s) == s[Len(s)]

\* line 174: the maker matched against, given the level's deque
PickMaker(s) == Head(s)

\* the taker's whole remainder, whatever the maker has left
TradeQty_Taker(rem, mq) == rem

\* line 175
TradeQty(rem, mq) == Min2(rem, mq)

\* lines 174-190 up to the await of trades_collection.insert_one
Match(b, l) ==
  LET mp == MatchPrice(b, l)
      q  == IF l.side = "buy" THEN b.asks[mp] ELSE b.bids[mp]
  IN IF b.dq[q] = <<>>
     THEN Raise(b, [l EXCEPT !.mp = mp, !.queue = q], "IndexError")
     ELSE LET m  == PickMaker(b.dq[q])
              tq == TradeQty(l.remaining, b.oq[m])
              tr == [price |-> TradePrice(mp, l), quantity |-> tq, maker |-> m, taker |-> l.id,
                     side |-> l.side]
          IN [b |-> [b EXCEPT !.oq = [@ EXCEPT ![m] = @ - tq],
                              !.trades = Append(@, tr)],
              l |-> [l EXCEPT !.pc = "s_trade", !.mp = mp, !.queue = q, !.maker = m,
                              !.remaining = @ - tq]]

\* line 160 onwards: one pass from the loop head to the next await
LoopHead(b, l) ==
  IF l.remaining > 0 /\ ~NotMarketable(b, l) THEN Match(b, l) ELSE Residual(b, l)

\* lines 133-157, after the order document is inserted
AfterInsert(b, l) ==
  IF l.typ = "fok" /\ Available(b, l) < l.remaining
  THEN [b |-> b, l |-> [l EXCEPT !.pc = "s_fok", !.fin = "cancelled"]]
  ELSE LoopHead(b, l)

\* lines 195-201 up to the await of the maker's update_one
MakerUpdate(b, l) ==
  IF b.oq[l.maker] = 0
  THEN IF b.dq[l.queue] = <<>>
       THEN Raise(b, l, "IndexError")
       ELSE [b |-> [b EXCEPT !.dq = [@ EXCEPT ![l.queue] = Tail(@)]],
             l |-> [l EXCEPT !.pc = "s_maker", !.fin = "filled", !.finq = 0]]
  ELSE [b |-> b,
        l |-> [l EXCEPT !.pc = "s_maker", !.fin = "partial", !.finq = b.oq[l.maker]]]

\* line 209: an ioc order leaves the loop after one trade
IocBreak(l) == l.typ = "ioc"

\* lines 202-211 and back to the loop head
AfterMakerUpdate(b, l) ==
  LET opp == IF l.side = "buy" THEN b.asks ELSE b.bids IN
  IF b.dq[l.queue] = <<>> /\ l.mp \notin DOMAIN opp
  THEN Raise(b, l, "KeyError")
  ELSE LET b1 == IF b.dq[l.queue] = <<>>
                 THEN [b EXCEPT !.asks = IF l.side = "buy" THEN DelKey(@, l.mp) ELSE @,
                                !.bids = IF l.side = "buy" THEN @ ELSE DelKey(@, l.mp)]
                 ELSE b
       IN IF IocBreak(l) THEN Residual(b1, l) ELSE LoopHead(b1, l)

----------------------------------------------------------------------------
(* cancel_order *)

\* lines 252-261
CancelRemove(b, side, price, id) ==
  LET sb == IF side = "buy" THEN b.bids ELSE b.asks IN
  IF price \in DOMAIN sb
  THEN LET d   == sb[price]
           s1  == RemoveFirst(b.dq[d], id)
           sb1 == IF s1 = <<>> THEN DelKey(sb, price) ELSE sb
       IN [b EXCEPT !.dq = [@ EXCEPT ![d] = s1],
                    !.bids = IF side = "buy" THEN sb1 ELSE @,
                    !.asks = IF side = "buy" THEN @ ELSE sb1]
  ELSE b

----------------------------------------------------------------------------
(* the state machine *)

Init ==
  /\ bids = << >>
  /\ asks = << >>
  /\ dq = [i \in Ids |-> <<>>]
  /\ oq = [i \in Ids |-> 0]
  /\ db = << >>
  /\ trades = <<>>
  /\ task = [t \in Slots |-> Idle]
  /\ nextId = 0
  /\ ncancel = 0
  /\ call = [i \in Ids |-> NoCall]
  /\ snap = NoSnap
  /\ resps = <<>>
  /\ bcast = <<>>
  /\ nbad = 0
  /\ nfail = 0

\* snap is dropped as soon as anything else changes the book.
KeepSnap == snap' = IF View' = View THEN snap ELSE NoSnap

\* Install the result r of a synchronous block of slot t; an exception ends the call.
Install(t, r, db1, call1) ==
  /\ bids' = r.b.bids
  /\ asks' = r.b.asks
  /\ dq' = r.b.dq
  /\ oq' = r.b.oq
  /\ trades' = r.b.trades
  /\ db' = db1
  /\ IF r.l.pc = "exc"
     THEN /\ task' = [task EXCEPT ![t] = Idle]
          /\ call' = [call1 EXCEPT ![r.l.id].st = r.l.fin]
     ELSE /\ task' = [task EXCEPT ![t] = r.l]
          /\ call' = call1

\* orders_collection.update_one({"order_id": id}, {"$set": ...}); q = 0: no quantity set
SetStatus(d, id, st, q) ==
  IF id \in DOMAIN d
  THEN [d EXCEPT ![id] = [@ EXCEPT !.status = st,
                                   !.quantity = IF q = 0 THEN @ ELSE q]]
  ELSE d

\* A new call runs in the first free slot (which slot is not program state).
FreeSlot(t) == task[t].pc = "idle" /\ \A u \in Slots : u < t => task[u].pc # "idle"

\* the order types that carry a price (line 118)
Priced == {"limit", "ioc", "fok"}

\* lines 116-120: the two tests that refuse a request
Invalid(typ, qty, pr) == qty <= 0 \/ (typ \in Priced /\ pr = NoPrice)

\* lines 118-123: the price kept for the order
OrderPrice(typ, pr) == IF typ \in Priced THEN pr ELSE NoPrice

\* lines 112-190: a call of submit_order with the request (side, typ, qty, pr), up
\* to its second await.  A request refused at line 117 / 120 ends there.  Before
\* its first await (insert_one, line 128) the coroutine has read nothing but its
\* request, so an accepted call is taken up where that await completes: the
\* document is inserted and lines 133-190 run to the next await.
SubmitOrder(t, side, typ, qty, pr) ==
  IF Invalid(typ, qty, pr)
  THEN /\ resps' = Append(resps, [op |-> "submit", id |-> NoOrder, code |-> 400])
       /\ UNCHANGED <<bids, asks, dq, oq, db, trades, task, nextId, call, snap>>
  ELSE /\ nextId < MaxOrders
       /\ LET price == OrderPrice(typ, pr)
              l == [Idle EXCEPT !.id = nextId + 1, !.side = side, !.typ = typ,
                                !.price = price, !.qty = qty, !.remaining = qty]
              doc == [side |-> side, typ |-> typ, price |-> price,
                      quantity |-> qty, status |-> "open"]
              r == AfterInsert(Heap, l)
          IN /\ Install(t, r, SetKey(db, l.id, doc),
                        [call EXCEPT ![l.id] = [st |-> "run", final |-> "none", qty |-> qty]])
             /\ snap' = IF typ = "limit" /\ r.l.pc = "s_final" /\ r.l.fin = "open"
                           /\ r.b.trades = trades
                        THEN [id |-> l.id, pre |-> View]
                        ELSE IF View' = View THEN snap ELSE NoSnap
       /\ nextId' = nextId + 1
       /\ UNCHANGED resps

\* submit_order called with a well-formed request
Submit(t) ==
  /\ FreeSlot(t)
  /\ \E side \in Sides, typ \in Types, qty \in Qtys, pr \in Prices :
       /\ typ = "market" => pr = 1     \* line 123: a market order's price is dropped
       /\ SubmitOrder(t, side, typ, qty, pr)
  /\ UNCHANGED <<ncancel, bcast, nbad, nfail>>

\* line 156 completes; line 157 returns
FokCancelDone(t) ==
  /\ task[t].pc = "s_fok"
  /\ db' = SetStatus(db, task[t].id, "cancelled", 0)
  /\ call' = [call EXCEPT ![task[t].id].st = "ret", ![task[t].id].final = "cancelled"]
  /\ task' = [task EXCEPT ![t] = Idle]
  /\ UNCHANGED <<bids, asks, dq, oq, trades, nextId, ncancel, snap, resps, bcast, nbad, nfail>>

\* the trade (its position in trades) that slot t has appended last: the local
\* variable trade of line 180
OwnTrade(t) == Max({k \in 1..Len(trades) : trades[k].taker = task[t].id})

\* lines 191-192 complete (the trade is stored and sent to the subscribers; the
\* coroutine does nothing between the two awaits); lines 195-201 run to the await
\* of the maker's update
TradeEmitted(t) ==
  /\ task[t].pc = "s_trade"
  /\ Install(t, MakerUpdate(Heap, task[t]), db, call)
  /\ bcast' = Append(bcast, OwnTrade(t))
  /\ KeepSnap
  /\ UNCHANGED <<nextId, ncancel, resps, nbad, nfail>>

\* line 197 / 200 completes; lines 202-234 run to the next await
MakerUpdateDone(t) ==
  /\ task[t].pc = "s_maker"
  /\ LET l == task[t] IN
     Install(t, AfterMakerUpdate(Heap, [l EXCEPT !.fin = "none", !.finq = 0]),
             SetStatus(db, l.maker, l.fin, l.finq), call)
  /\ KeepSnap
  /\ UNCHANGED <<nextId, ncancel, resps, bcast, nbad, nfail>>

\* line 220 / 227 / 231 / 234 completes; line 236 returns
FinalDone(t) ==
  /\ task[t].pc = "s_final"
  /\ db' = SetStatus(db, task[t].id, task[t].fin, task[t].finq)
  /\ call' = [call EXCEPT ![task[t].id].st = "ret", ![task[t].id].final = task[t].fin]
  /\ task' = [task EXCEPT ![t] = Idle]
  /\ UNCHANGED <<bids, asks, dq, oq, trades, nextId, ncancel, snap, resps, bcast, nbad, nfail>>

\* The order ids a caller of cancel_order can name: those handed out (line 125
\* draws them at random) and one that never was.
CancelIds == (1..nextId) \cup {NoOrder}

\* lines 243-248: find_one (the first await, taken up where it completes) finds
\* no document (404) or a finalized one (400), and the call raises
CancelRefused(t) ==
  /\ FreeSlot(t)
  /\ ncancel < MaxCancels
  /\ \E id \in CancelIds :
       IF id \notin DOMAIN db
       THEN resps' = Append(resps, [op |-> "cancel", id |-> id, code |-> 404])
       ELSE /\ db[id].status \in {"filled", "cancelled"}
            /\ resps' = Append(resps, [op |-> "cancel", id |-> id, code |-> 400])
  /\ ncancel' = ncancel + 1
  /\ UNCHANGED <<bids, asks, dq, oq, db, trades, task, nextId, call, snap, bcast, nbad, nfail>>

\* lines 243-262: find_one finds an order that is not finalized; lines 249-261
\* take it out of the book, up to the await of update_one
CancelFound(t) ==
  /\ FreeSlot(t)
  /\ ncancel < MaxCancels
  /\ \E id \in DOMAIN db :
       /\ db[id].status \notin {"filled", "cancelled"}
       /\ LET b == CancelRemove(Heap, db[id].side, db[id].price, id)
          IN /\ bids' = b.bids
             /\ asks' = b.asks
             /\ dq' = b.dq
       /\ task' = [task EXCEPT ![t] = [Idle EXCEPT !.pc = "c_upd", !.id = id]]
  /\ ncancel' = ncancel + 1
  /\ UNCHANGED <<oq, db, trades, nextId, call, resps, bcast, nbad, nfail>>
  /\ KeepSnap

\* line 262 completes; line 263 returns
CancelDone(t) ==
  /\ task[t].pc = "c_upd"
  /\ db' = SetStatus(db, task[t].id, "cancelled", 0)
  /\ resps' = Append(resps, [op |-> "cancel", id |-> task[t].id, code |-> 200])
  /\ task' = [task EXCEPT ![t] = Idle]
  /\ UNCHANGED <<bids, asks, dq, oq, trades, nextId, ncancel, call, snap, bcast, nbad, nfail>>

Next ==
  \E t \in Slots :
    \/ Submit(t)
    \/ FokCancelDone(t)
    \/ TradeEmitted(t)
    \/ MakerUpdateDone(t)
    \/ FinalDone(t)
    \/ CancelRefused(t)
    \/ CancelFound(t)
    \/ CancelDone(t)

Spec == Init /\ [][Next]_vars

TypeOK ==
  /\ nextId \in 0..MaxOrders
  /\ DOMAIN db \subseteq Ids
  /\ \A t \in Slots : task[t].pc \in {"idle", "s_fok", "s_trade", "s_maker",
                                      "s_final", "c_upd"}

----------------------------------------------------------------------------
(* notions the properties are stated in *)

RestingAt(sd, i) == \E p \in DOMAIN sd : InSeq(dq[sd[p]], i)
Resting(i) == RestingAt(bids, i) \/ RestingAt(asks, i)

RECURSIVE FilledAsTaker(_, _)
FilledAsTaker(s, i) ==
  IF s = <<>> THEN 0
  ELSE (IF Head(s).taker = i THEN Head(s).quantity ELSE 0) + FilledAsTaker(Tail(s), i)

TradesAsTaker(i) == {k \in 1..Len(trades) : trades[k].taker = i}

Ended(i) == call[i].st \notin {"none", "run"}

NewTrade == Len(trades') = Len(trades) + 1
LastTrade == trades'[Len(trades')]

----------------------------------------------------------------------------
(* C1: whenever both sides of the book hold a price level, the highest bid  *)
(* price is strictly below the lowest ask price, in every reachable state   *)
(* (also while calls are in flight).                                        *)
C1_NoCrossedBook ==
  (DOMAIN bids # {} /\ DOMAIN asks # {}) => Max(DOMAIN bids) < Min(DOMAIN asks)

\* both sides are populated and a match has taken place
C1_Witness ==
  /\ DOMAIN bids # {} /\ DOMAIN asks # {}
  /\ \E k \in 1..Len(trades) : trades[k].quantity > 0
  /\ \E p \in DOMAIN bids : dq[bids[p]] # <<>>
  /\ \E p \in DOMAIN asks : dq[asks[p]] # <<>>

(* C2: price-time priority.  Whenever a trade is produced, its maker rests  *)
(* at the best price level of the opposite side, and every order resting    *)
(* on that side at a strictly better price, or at the same price ahead of   *)
(* the maker in the level, has quantity 0 (is fully consumed).              *)
C2_PriceTimePriority ==
  [][NewTrade =>
       LET tr == LastTrade
           sd == IF tr.side = "buy" THEN asks ELSE bids
       IN /\ tr.price \in DOMAIN sd
          /\ InSeq(dq[sd[tr.price]], tr.maker)
          /\ \A p \in DOMAIN sd : \A k \in 1..Len(dq[sd[p]]) :
               ( \/ (IF tr.side = "buy" THEN p < tr.price ELSE p > tr.price)
                 \/ (p = tr.price /\ \E j \in (k+1)..Len(dq[sd[p]]) :
                                        dq[sd[p]][j] = tr.maker) )
               => oq[dq[sd[p]][k]] = 0]_vars

\* one taker has filled two different makers, the first of them for a positive quantity
C2_Witness ==
  \E i, j \in 1..Len(trades) :
    /\ i < j
    /\ trades[i].taker = trades[j].taker
    /\ trades[i].maker # trades[j].maker
    /\ trades[i].quantity > 0 /\ trades[j].quantity > 0

(* C3: calls on one symbol are atomic; in particular no call fails with an  *)
(* exception from popping an empty queue (IndexError) or deleting an absent *)
(* price level (KeyError).                                                  *)
C3_CallsAtomic ==
  \A i \in Ids : call[i].st \notin {"IndexError", "KeyError"}


(* C4: a fill-or-kill submission is all-or-nothing: once its call has       *)
(* returned, either its trades sum to the quantity asked for, or it has no   *)
(* trade and was finalized cancelled.                                        *)
C4_FokAllOrNothing ==
  \A i \in DOMAIN db :
    (db[i].typ = "fok" /\ call[i].st = "ret") =>
       \/ FilledAsTaker(trades, i) = call[i].qty
       \/ (TradesAsTaker(i) = {} /\ call[i].final = "cancelled")

\* a positive quantity rests at a price the order (side, price) may trade at
MarketableLeft(side, price, sd, d, q) ==
  \E p \in DOMAIN sd :
    /\ price = NoPrice \/ (IF side = "buy" THEN p <= price ELSE p >= price)
    /\ \E k \in 1..Len(d[sd[p]]) : q[d[sd[p]][k]] > 0

\* slot t leaves the match loop in this step
LeavesLoop(t) == task'[t].pc = "s_final" /\ task[t].pc # "s_final"

(* C5: when an immediate-or-cancel order leaves the match loop, either its   *)
(* remaining quantity is 0 or nothing on the opposite side is marketable     *)
(* against its limit price.                                                  *)
C5_IocMatchesAll ==
  [][\A t \in Slots :
       (LeavesLoop(t) /\ task'[t].typ = "ioc") =>
          \/ task'[t].remaining = 0
          \/ ~MarketableLeft(task'[t].side, task'[t].price,
                             IF task'[t].side = "buy" THEN asks' ELSE bids', dq', oq')]_vars

\* the order submitted in this step, if any
Submitted == nextId' = nextId + 1
NewId == nextId'

(* C6: only limit orders rest.  In every state no order of type market, ioc  *)
(* or fok is present at any price level; and a market order submitted while  *)
(* the opposite side has no price level produces no trade, changes no book   *)
(* and is finalized cancelled.                                               *)
C6_OnlyLimitRests ==
  [][/\ \A i \in DOMAIN db' :
          db'[i].typ \in {"market", "ioc", "fok"} =>
             ~(RestingAt(bids, i)' \/ RestingAt(asks, i)')
     /\ (Submitted /\ db'[NewId].typ = "market"
           /\ DOMAIN (IF db'[NewId].side = "buy" THEN asks ELSE bids) = {})
        => /\ trades' = trades
           /\ View' = View
           /\ \E t \in Slots : /\ task'[t].id = NewId
                               /\ task'[t].pc = "s_final"
                               /\ task'[t].fin = "cancelled"]_vars

\* a market order met an empty book and ended cancelled with no trade, and a
\* market or ioc order ended cancelled after a partial fill; neither rests
C6_Witness ==
  /\ \E i \in DOMAIN db :
       /\ db[i].typ = "market" /\ call[i].st = "ret" /\ call[i].final = "cancelled"
       /\ TradesAsTaker(i) = {}
  /\ \E i \in DOMAIN db :
       /\ db[i].typ \in {"market", "ioc"} /\ call[i].st = "ret"
       /\ call[i].final = "cancelled"
       /\ FilledAsTaker(trades, i) > 0 /\ FilledAsTaker(trades, i) < call[i].qty
       /\ ~Resting(i)

(* C7: a limit order that does not cross the best opposite price (or meets   *)
(* an empty opposite side) produces no trade and is appended with its full   *)
(* quantity at the tail of the level of its limit price on its own side;     *)
(* the other levels of its side and the opposite side are unchanged.         *)
C7_NonCrossingLimitRests ==
  [][(Submitted /\ db'[NewId].typ = "limit"
        /\ IF db'[NewId].side = "buy"
           THEN DOMAIN asks = {} \/ db'[NewId].price < Min(DOMAIN asks)
           ELSE DOMAIN bids = {} \/ db'[NewId].price > Max(DOMAIN bids))
     => LET buy == db'[NewId].side = "buy"
            pr  == db'[NewId].price
            own == IF buy THEN View.bids ELSE View.asks
            ownN == IF buy THEN View'.bids ELSE View'.asks
            opp == IF buy THEN View.asks ELSE View.bids
            oppN == IF buy THEN View'.asks ELSE View'.bids
        IN /\ trades' = trades
           /\ oppN = opp
           /\ DOMAIN ownN = DOMAIN own \cup {pr}
           /\ \A p \in DOMAIN own \ {pr} : ownN[p] = own[p]
           /\ ownN[pr] = Append(IF pr \in DOMAIN own THEN own[pr] ELSE <<>>,
                                <<NewId, call'[NewId].qty>>)]_vars

\* an unmatched limit order waits at the tail of a level behind an earlier order,
\* with a price level on the opposite side
C7_Witness ==
  \E t \in Slots :
    /\ task[t].pc = "s_final" /\ task[t].typ = "limit" /\ task[t].fin = "open"
    /\ task[t].remaining = task[t].qty /\ TradesAsTaker(task[t].id) = {}
    /\ LET sd == IF task[t].side = "buy" THEN bids ELSE asks
           op == IF task[t].side = "buy" THEN asks ELSE bids
       IN /\ task[t].price \in DOMAIN sd
          /\ Len(dq[sd[task[t].price]]) >= 2
          /\ dq[sd[task[t].price]][Len(dq[sd[task[t].price]])] = task[t].id
          /\ DOMAIN op # {}

(* C8: every trade executes at the price of the level its maker rests at     *)
(* (the maker's own limit), never beyond the taker's limit: at or below the  *)
(* limit of a buy taker, at or above the limit of a sell taker.              *)
C8_TradeAtMakerPrice ==
  [][NewTrade =>
       LET tr == LastTrade
           sd == IF tr.side = "buy" THEN asks ELSE bids
       IN /\ \E p \in DOMAIN sd : InSeq(dq[sd[p]], tr.maker) /\ p = tr.price
          /\ db'[tr.maker].price = tr.price
          /\ db'[tr.taker].price # NoPrice =>
               IF tr.side = "buy" THEN tr.price <= db'[tr.taker].price
                                  ELSE tr.price >= db'[tr.taker].price]_vars

\* a trade at a price strictly better for the taker than its limit
C8_Witness ==
  \E k \in 1..Len(trades) :
    /\ trades[k].quantity > 0
    /\ db[trades[k].taker].price # NoPrice
    /\ db[trades[k].taker].price # trades[k].price

(* C9: the final status of a submission that returned: filled iff nothing    *)
(* remained; cancelled iff the type is market, ioc or fok and quantity       *)
(* remained; a limit order whose remainder rests is partial if the           *)
(* submission traded and open if it did not.                                 *)
C9_FinalStatus ==
  \A i \in DOMAIN db :
    call[i].st = "ret" =>
      LET f == FilledAsTaker(trades, i)
          q == call[i].qty
      IN /\ (call[i].final = "filled") <=> (f = q)
         /\ (call[i].final = "cancelled") <=> (db[i].typ # "limit" /\ f < q)
         /\ (db[i].typ = "limit" /\ f < q) =>
               call[i].final = IF TradesAsTaker(i) # {} THEN "partial" ELSE "open"

(* C10: a non-crossing limit order is submitted and, before anything else    *)
(* changes the book, cancelled: the book (price levels and FIFO content of   *)
(* each) is then what it was before the submission, and it has no empty      *)
(* price level.                                                              *)
C10_SubmitCancelRoundTrip ==
  [][\A t \in Slots :
       (task'[t].pc = "c_upd" /\ task[t].pc # "c_upd" /\ snap.id = task'[t].id) =>
          /\ View' = snap.pre
          /\ \A p \in DOMAIN View'.bids : View'.bids[p] # <<>>
          /\ \A p \in DOMAIN View'.asks : View'.asks[p] # <<>>]_vars

----------------------------------------------------------------------------
(* notions of the responses and of the persisted status *)

Terminal == {"filled", "cancelled"}

\* a call answers in this step
Responded == Len(resps') = Len(resps) + 1
LastResp == resps'[Len(resps')]

\* the order ids for which cancel_order has returned success
CancelledOk ==
  {resps[k].id : k \in {j \in 1..Len(resps) : resps[j].op = "cancel" /\ resps[j].code = 200}}

\* slot t passes the tests of lines 245-248 in this step
CancelAccepts(t) == task'[t].pc = "c_upd" /\ task[t].pc # "c_upd"

(* C11: cancel_order answers 404 exactly for an id with no order document    *)
(* and 400 exactly for an order whose persisted status is filled or          *)
(* cancelled, and such a refusal changes no book and no order document; an   *)
(* order for which cancel_order has returned success keeps a filled or       *)
(* cancelled status, so that a further cancel of it is refused with 400.     *)
C11_CancelErrors ==
  [][/\ (Responded /\ LastResp.op = "cancel" /\ LastResp.code # 200) =>
          /\ LastResp.code = 404 <=> LastResp.id \notin DOMAIN db
          /\ LastResp.code = 400 <=>
               (LastResp.id \in DOMAIN db /\ db[LastResp.id].status \in Terminal)
          /\ UNCHANGED <<bids, asks, dq, oq, db, trades>>
     /\ \A t \in Slots :
          CancelAccepts(t) => /\ task'[t].id \in DOMAIN db
                              /\ db[task'[t].id].status \notin Terminal
     /\ \A i \in CancelledOk' : db'[i].status \in Terminal]_vars

----------------------------------------------------------------------------
(* malformed requests *)

MaxMalformed == 1   \* requests with a malformed field

BadSides == {"hold"}     \* a side that is neither buy nor sell
BadTypes == {"stop"}     \* an order type that is none of limit, market, ioc, fok
BadQtys == {0}           \* a quantity that is not positive

MaxBadFields == 1   \* malformed fields in one request

\* the fields of the request that are not as the interface asks
BadFields(side, typ, qty, pr) ==
  (IF side \notin Sides THEN {"side"} ELSE {})
    \cup (IF typ \notin Types THEN {"order_type"} ELSE {})
    \cup (IF qty <= 0 THEN {"quantity"} ELSE {})
    \cup (IF typ \in Priced /\ pr = NoPrice THEN {"price"} ELSE {})

Malformed(side, typ, qty, pr) == BadFields(side, typ, qty, pr) # {}

\* the malformed requests <<side, order_type, quantity, price>>; a type that
\* carries no price is given none (line 123 drops it)
MalformedRequests ==
  {r \in (Sides \cup BadSides) \X (Types \cup BadTypes) \X (Qtys \cup BadQtys)
           \X (Prices \cup {NoPrice}) :
     /\ Malformed(r[1], r[2], r[3], r[4])
     /\ Cardinality(BadFields(r[1], r[2], r[3], r[4])) <= MaxBadFields
     /\ r[2] \notin Priced => r[4] = NoPrice}

\* submit_order called with a malformed request, while no other call is in
\* flight (lines 112-123 read nothing but the request)
SubmitMalformed(t) ==
  /\ FreeSlot(t)
  /\ \A u \in Slots : task[u].pc = "idle"
  /\ nbad < MaxMalformed
  /\ \E r \in MalformedRequests : SubmitOrder(t, r[1], r[2], r[3], r[4])
  /\ nbad' = nbad + 1
  /\ UNCHANGED <<ncancel, bcast, nfail>>

\* submit_order alone, called with well-formed and malformed requests
\* (cancel_order takes no part in the validation of a submission)
NextMalformed ==
  \E t \in Slots :
    \/ Submit(t)
    \/ SubmitMalformed(t)
    \/ FokCancelDone(t)
    \/ TradeEmitted(t)
    \/ MakerUpdateDone(t)
    \/ FinalDone(t)

SpecMalformed == Init /\ [][NextMalformed]_vars

\* the order document is one of a well-formed request
WellFormed(doc) ==
  /\ doc.side \in Sides
  /\ doc.typ \in Types
  /\ doc.quantity > 0
  /\ doc.typ \in Priced => doc.price # NoPrice

(* C12: a request with a quantity <= 0, with a priced type and no price,     *)
(* with a side other than buy/sell or with a type other than                 *)
(* limit/market/ioc/fok is refused: no order document is ever created for    *)
(* it, and the refusal leaves books, documents and trades unchanged.         *)
C12_InvalidRejected ==
  [][/\ (Responded /\ LastResp.op = "submit") =>
          /\ LastResp.code = 400
          /\ UNCHANGED <<bids, asks, dq, oq, db, trades, task, nextId>>
     /\ \A i \in DOMAIN db' \ DOMAIN db : WellFormed(db'[i])]_vars

----------------------------------------------------------------------------
(* failing store operations *)

MaxFailures == 1    \* awaited store writes that raise

\* line 128: insert_one raises; nothing catches it, the call ends there (the
\* order id of line 125 is used up, no document exists)
InsertFails(t) ==
  /\ FreeSlot(t)
  /\ nfail < MaxFailures
  /\ nextId < MaxOrders
  /\ \E qty \in Qtys :
       call' = [call EXCEPT ![nextId + 1] = [st |-> "StoreError", final |-> "none",
                                             qty |-> qty]]
  /\ nextId' = nextId + 1
  /\ nfail' = nfail + 1
  /\ UNCHANGED <<bids, asks, dq, oq, db, trades, task, ncancel, snap, resps, bcast, nbad>>

\* the positions at which submit_order awaits a store write: 156, 191, 197 / 200,
\* 220 / 227 / 231 / 234
StoreWrites == {"s_fok", "s_trade", "s_maker", "s_final"}

\* the awaited write of slot t raises; nothing catches it (no try in
\* submit_order), so the coroutine ends where it stands
StoreWriteFails(t) ==
  /\ task[t].pc \in StoreWrites
  /\ nfail < MaxFailures
  /\ call' = [call EXCEPT ![task[t].id].st = "StoreError"]
  /\ task' = [task EXCEPT ![t] = Idle]
  /\ nfail' = nfail + 1
  /\ UNCHANGED <<bids, asks, dq, oq, db, trades, nextId, ncancel, snap, resps, bcast, nbad>>

\* submit_order alone, over a store whose writes may fail
NextFaulty ==
  \E t \in Slots :
    \/ Submit(t)
    \/ InsertFails(t)
    \/ StoreWriteFails(t)
    \/ FokCancelDone(t)
    \/ TradeEmitted(t)
    \/ MakerUpdateDone(t)
    \/ FinalDone(t)

SpecFaulty == Init /\ [][NextFaulty]_vars

\* no call is in flight
Quiet == \A t \in Slots : task[t].pc = "idle"

\* a maker with no quantity left is at the head of a price level
ZeroAtHead ==
  \/ \E p \in DOMAIN bids : dq[bids[p]] # <<>> /\ oq[Head(dq[bids[p]])] = 0
  \/ \E p \in DOMAIN asks : dq[asks[p]] # <<>> /\ oq[Head(dq[asks[p]])] = 0

(* C13: a failing store write never aborts a submission: no call of          *)
(* submit_order ends with the store's exception, and once the calls are      *)
(* over no maker of quantity 0 is at the head of a price level and every     *)
(* limit order with quantity left over rests in the book.                    *)
C13_StoreFailureTolerated ==
  /\ \A i \in Ids : call[i].st # "StoreError"
  /\ Quiet => /\ ~ZeroAtHead
              /\ \A i \in DOMAIN db :
                   (db[i].typ = "limit" /\ FilledAsTaker(trades, i) < call[i].qty
                      /\ db[i].status \notin Terminal) => Resting(i)

----------------------------------------------------------------------------
(* C14: the trades are sent to the subscribers in the order in which they    *)
(* were matched: a trade matched earlier (appended earlier to trades) is     *)
(* never sent after a trade matched later, also when the two belong to       *)
(* different submissions in flight at the same time.                         *)
C14_BroadcastInMatchOrder ==
  \A i, j \in 1..Len(bcast) : i < j => bcast[i] < bcast[j]

----------------------------------------------------------------------------
(* C15: once cancel_order has returned success for an order, the order       *)
(* rests at no price level of either side in any later state, and no trade   *)
(* produced afterwards has it as maker; also when the cancel ran while the   *)
(* order's own submit_order call was in flight.                              *)
C15_CancelledStaysOut ==
  [][/\ \A i \in CancelledOk' : ~(RestingAt(bids, i)' \/ RestingAt(asks, i)')
     /\ \A i \in CancelledOk : NewTrade => LastTrade.maker # i]_vars

----------------------------------------------------------------------------
(* C16: filled and cancelled are terminal: once the persisted status of an   *)
(* order is filled or cancelled, no step of any call changes it.             *)
C16_TerminalStatus ==
  [][\A i \in DOMAIN db :
       db[i].status \in Terminal => db'[i].status = db[i].status]_vars

----------------------------------------------------------------------------
\* the orders at the price levels of one side, level by level
Levels(sd) == {dq[sd[p]] : p \in DOMAIN sd}

(* C17: in every state (each is one that a call starting or resuming then    *)
(* observes) every price level of the bids and of the asks holds at least    *)
(* one order and every order in a level has a quantity > 0; in particular    *)
(* no maker of quantity 0 is at the head of a level and no emptied level is  *)
(* left in the book.                                                         *)
C17_LevelsWellFormed ==
  \A s \in Levels(bids) \cup Levels(asks) :
    /\ s # <<>>
    /\ \A k \in 1..Len(s) : oq[s[k]] > 0

----------------------------------------------------------------------------
\* the quantity order i has traded, as maker or as taker, in the trades s
RECURSIVE Traded(_, _)
Traded(s, i) ==
  IF s = <<>> THEN 0
  ELSE (IF Head(s).maker = i \/ Head(s).taker = i THEN Head(s).quantity ELSE 0)
       + Traded(Tail(s), i)

----------------------------------------------------------------------------
\* order i is in the level of its recorded price on its recorded side
RestsAsRecorded(i) ==
  LET sd == IF db[i].side = "buy" THEN bids ELSE asks
  IN db[i].price \in DOMAIN sd /\ InSeq(dq[sd[db[i].price]], i)

\* how often order i occurs in the levels of side sd
Occurrences(sd, i) ==
  Cardinality({<<p, k>> \in (DOMAIN sd) \X (1..MaxOrders) :
                 k <= Len(dq[sd[p]]) /\ dq[sd[p]][k] = i})

(* C19: whenever no call is in flight, the order documents and the book      *)
(* agree: an order is in the level of its recorded price on its recorded     *)
(* side if and only if its persisted status is open or partial, and every    *)
(* order id occurs at most once over all levels of both sides.               *)
C19_StoreAndBookAgree ==
  Quiet =>
    \A i \in DOMAIN db :
      /\ RestsAsRecorded(i) <=> db[i].status \in {"open", "partial"}
      /\ Occurrences(bids, i) + Occurrences(asks, i) <= 1

----------------------------------------------------------------------------
(* C20: every trade has a strictly positive quantity, the minimum of what    *)
(* the taker still had to fill and of what the maker at the head of the      *)
(* level had left when they were matched; no trade of quantity 0 is ever     *)
(* recorded, in any interleaving.                                            *)
C20_PositiveTrades ==
  [][NewTrade =>
       LET tr == LastTrade
       IN /\ tr.quantity > 0
          /\ tr.quantity = Min2(call'[tr.taker].qty - FilledAsTaker(trades, tr.taker),
                                oq[tr.maker])]_vars

=============================================================================
